---- MODULE Spec2Model ----
(***************************************************************************)
(* LocalParticipant (lib/localparticipant.js): the publish / unpublish     *)
(* state machine of the local participant, its track registry, its        *)
(* publication registries, the per-track TrackSignaling records of the     *)
(* signaling collaborator, the 'updated' listeners of pending publishes    *)
(* and the notifications deferred with setTimeout.                         *)
(*                                                                         *)
(* One action of the model is one run-to-completion turn of the event      *)
(* loop: a public method call, a signaling notification with every         *)
(* listener it synchronously reaches, or one expired timer.  The mutable   *)
(* program state of a turn is threaded through the operators below as a    *)
(* record S.                                                               *)
(***************************************************************************)
EXTENDS Naturals, Sequences, FiniteSets

\* ------------------------------------------------------------------ bounds
MaxListeners == 2
MaxTimers == 2
MaxSids == 1

\* ------------------------------------------------------------ value spaces
Tracks == {"a1", "d1"}
TrackOrder == <<"a1", "d1">>
\* The sids the server may assign to the record of track t.
Sids(t) == {<<t, n>> : n \in 1..MaxSids}
NoTrack == "none"
NoSid == <<>>
NoError == "none"
NoMst == "none"

kind(t) ==
    CASE t = "a1" -> "audio"
      [] t = "v1" -> "video"
      [] t = "d1" -> "data"
      [] OTHER -> "none"

mediaStreamTrack(t) ==
    CASE t = "a1" -> "mst_a1"
      [] t = "v1" -> "mst_v1"
      [] OTHER -> NoMst

MediaStreamTracks == {mediaStreamTrack(t) : t \in {u \in Tracks : kind(u) # "data"}}
Junk == "junk"
Inputs == Tracks \cup MediaStreamTracks

\* A LocalTrackPublication: its track and its trackSid.
NoPub == [track |-> NoTrack, trackSid |-> NoSid]
\* A TrackSignaling record with the 'updated' listeners attached to it, oldest
\* first; a listener is the Promise it settles.
NoRecord ==
    [exists |-> FALSE, sid |-> NoSid, error |-> NoError, listeners |-> <<>>]
Promise(id, swallowed) == [id |-> id, outcome |-> "pending", swallowed |-> swallowed]

Event(type, t, pub, error) == [type |-> type, track |-> t, pub |-> pub, error |-> error]
Settlement(t, id, outcome, pub, error, branch, first) ==
    [track |-> t, id |-> id, outcome |-> outcome, pub |-> pub, error |-> error,
     branch |-> branch, first |-> first]

Min(s) == CHOOSE x \in s : \A y \in s : x <= y

\* ------------------------------------------------- Map (insertion ordered)
MapKeys(m) == {m[i].key : i \in 1..Len(m)}
MapHas(m, k) == k \in MapKeys(m)
MapValues(m) == [i \in 1..Len(m) |-> m[i].value]
MapGet(m, k) == m[CHOOSE i \in 1..Len(m) : m[i].key = k].value
MapSet(m, k, v) ==
    IF MapHas(m, k)
    THEN [i \in 1..Len(m) |-> IF m[i].key = k THEN [key |-> k, value |-> v] ELSE m[i]]
    ELSE Append(m, [key |-> k, value |-> v])
MapDelete(m, k) == SelectSeq(m, LAMBDA e : e.key # k)

\* ------------------------------------------------------------ small steps
\* EventEmitter.emit towards the observers of the LocalParticipant: the
\* notification is recorded in the turn's list of emitted notifications.
emit(S, ev) == [S EXCEPT !.emitted = Append(@, ev)]

\* Mutant: the callback is queued before the timers already set.
setTimeoutFirst(S, ev) ==
    IF Len(S.timers) >= MaxTimers
    THEN [S EXCEPT !.ok = FALSE]
    ELSE [S EXCEPT !.timers = <<ev>> \o @]

\* setTimeout(callback): the callback is queued behind the timers already
\* set; every callback of this file emits one notification.
setTimeout(S, ev) ==
    IF Len(S.timers) >= MaxTimers
    THEN [S EXCEPT !.ok = FALSE]
    ELSE [S EXCEPT !.timers = Append(@, ev)]

\* Mutant: the listener stays attached.
removeListenerForgotten(S, t, id) == S

\* trackSignaling.removeListener('updated', updated), for the listener of
\* Promise id on the record of track t.
removeListener(S, t, id) ==
    [S EXCEPT !.sigTracks[t].listeners = SelectSeq(@, LAMBDA p : p.id # id)]

\* resolve(publication) and reject(error) of Promise id: only the first call
\* settles it; every call is logged.
settle(S, t, id, outcome, pub, error, branch) ==
    LET ls == S.sigTracks[t].listeners
        first == /\ \A k \in 1..Len(S.settled) :
                        ~(S.settled[k].track = t /\ S.settled[k].id = id)
                 /\ \A k \in 1..Len(ls) : ls[k].id = id => ls[k].outcome = "pending"
    IN  [S EXCEPT
            !.settled = Append(@, Settlement(t, id, outcome, pub, error, branch, first)),
            !.sigTracks[t].listeners =
                [k \in 1..Len(@) |->
                    IF @[k].id = id /\ @[k].outcome = "pending"
                    THEN [@[k] EXCEPT !.outcome = outcome]
                    ELSE @[k]]]

resolve(S, t, id, pub, branch) == settle(S, t, id, "resolved", pub, NoError, branch)

\* Mutant: the Promise is left pending.
rejectDropped(S, t, id, error, branch) == S

reject(S, t, id, error, branch) == settle(S, t, id, "rejected", NoPub, error, branch)

\* ---------------------------------------------- signaling collaborator
\* signaling.addTrack(trackSender, name): a TrackSignaling record is created
\* for the track; listeners of a record it replaces are never notified again.
signalingAddTrack(S, t) ==
    [S EXCEPT !.sigTracks[t] = [NoRecord EXCEPT !.exists = TRUE],
              !.orphaned = @ \/ S.sigTracks[t].listeners # <<>>,
              !.calls = Append(@, <<"addTrack", t>>)]

\* signaling.removeTrack(trackSender): the record leaves signaling.tracks.
\* The object lives on in the closures of its listeners until the turn ends.
signalingRemoveTrack(S, t) ==
    [S EXCEPT !.sigTracks[t].exists = FALSE,
              !.calls = Append(@, <<"removeTrack", t>>)]

\* ------------------------------------------ handlers of the controller
localTrackAdded(S, t) == signalingAddTrack(S, t)
localTrackRemoved(S, t) == signalingRemoveTrack(S, t)

\* ------------------------------------------------ Participant base
\* _addTrack(track): null when the track is registered; otherwise the track
\* is registered and 'trackAdded' is emitted.
_addTrack(S, t) ==
    IF t \in S.tracks
    THEN S
    ELSE LET S1 == emit([S EXCEPT !.tracks = @ \cup {t}],
                        Event("trackAdded", t, NoPub, NoError))
         IN  IF S1.handlers = "attached" THEN localTrackAdded(S1, t) ELSE S1

\* _removeTrack(track): null when the track is not registered; otherwise the
\* track is removed and 'trackRemoved' is emitted.
_removeTrack(S, t) ==
    IF t \notin S.tracks
    THEN S
    ELSE LET S1 == emit([S EXCEPT !.tracks = @ \ {t}],
                        Event("trackRemoved", t, NoPub, NoError))
         IN  IF S1.handlers = "attached" THEN localTrackRemoved(S1, t) ELSE S1

\* -------------------------------------------------- getTrackPublication
\* Mutant: a publication is found by its LocalTrack only.
getTrackPublicationByTrackOnly(trackPublications, track) ==
    LET values == MapValues(trackPublications)
        hits == {i \in 1..Len(values) : values[i].track = track}
    IN  IF hits = {} THEN NoPub ELSE values[Min(hits)]

getTrackPublication(trackPublications, track) ==
    LET values == MapValues(trackPublications)
        hits == {i \in 1..Len(values) :
                    \/ values[i].track = track
                    \/ mediaStreamTrack(values[i].track) = track}
    IN  IF hits = {} THEN NoPub ELSE values[Min(hits)]

\* Mutant: every publication goes to the audio map.
publishedKindTracksSetAudio(S, k, sid, pub) ==
    [S EXCEPT !.audioTrackPublications = MapSet(@, sid, pub)]

\* publishedKindTracks.set(sid, localTrackPublication)
publishedKindTracksSet(S, k, sid, pub) ==
    CASE k = "audio" -> [S EXCEPT !.audioTrackPublications = MapSet(@, sid, pub)]
      [] k = "video" -> [S EXCEPT !.videoTrackPublications = MapSet(@, sid, pub)]
      [] OTHER -> [S EXCEPT !.dataTrackPublications = MapSet(@, sid, pub)]

\* Mutant: the publication stays in the map of its kind.
publishedKindTracksDeleteForgotten(S, k, sid) == S

\* publishedKindTracks.delete(localTrackPublication.trackSid)
publishedKindTracksDelete(S, k, sid) ==
    CASE k = "audio" -> [S EXCEPT !.audioTrackPublications = MapDelete(@, sid)]
      [] k = "video" -> [S EXCEPT !.videoTrackPublications = MapDelete(@, sid)]
      [] OTHER -> [S EXCEPT !.dataTrackPublications = MapDelete(@, sid)]

\* util.asLocalTrackPublication(localTrack, sid, unpublish, options)
asLocalTrackPublication(localTrack, sid) == [track |-> localTrack, trackSid |-> sid]

\* --------------------------- _getOrCreateLocalTrackPublication: updated()
\* The 'updated' listener of Promise id, attached to the TrackSignaling
\* record of localTrack.
\* Mutant: 'trackPublicationFailed' is emitted inside the 'updated' dispatch.
updatedErrorSynchronous(S, localTrack, id) ==
    LET error == S.sigTracks[localTrack].error
        S1 == removeListener(S, localTrack, id)
        S2 == _removeTrack(S1, localTrack)
        S3 == emit(S2, Event("trackPublicationFailed", localTrack, NoPub, error))
    IN  reject(S3, localTrack, id, error, "error")

updatedError(S, localTrack, id) ==
    LET error == S.sigTracks[localTrack].error
        S1 == removeListener(S, localTrack, id)
        S2 == _removeTrack(S1, localTrack)
        S3 == setTimeout(S2, Event("trackPublicationFailed", localTrack, NoPub, error))
    IN  reject(S3, localTrack, id, error, "error")

updatedUnpublished(S, localTrack, id) ==
    reject(removeListener(S, localTrack, id), localTrack, id, "unpublished", "removed")

\* Mutant: 'trackPublished' is scheduled in every signaling state.
announceAlways(S, localTrack, localTrackPublication) ==
    setTimeout(S, Event("trackPublished", localTrack, localTrackPublication, NoError))

\* if (self._signaling.state === 'connected') setTimeout(emit 'trackPublished')
announce(S, localTrack, localTrackPublication) ==
    IF S.state = "connected"
    THEN setTimeout(S, Event("trackPublished", localTrack, localTrackPublication, NoError))
    ELSE S

\* Mutant: the listener stays attached when the sid has arrived.
updatedSidKeepsListener(S, localTrack, id) ==
    LET sid == S.sigTracks[localTrack].sid
        found == getTrackPublication(S.trackPublications, localTrack)
        created == asLocalTrackPublication(localTrack, sid)
        S2 == IF found # NoPub
              THEN S
              ELSE publishedKindTracksSet(
                       [S EXCEPT !.trackPublications = MapSet(@, sid, created),
                                 !.created = Append(@, created)],
                       kind(localTrack), sid, created)
        localTrackPublication == IF found # NoPub THEN found ELSE created
        S3 == announce(S2, localTrack, localTrackPublication)
    IN  resolve(S3, localTrack, id, localTrackPublication, "sid")

\* Mutant: the listener does not look for the publication that a listener
\* called before it has created.
updatedSidAlwaysCreates(S, localTrack, id) ==
    LET sid == S.sigTracks[localTrack].sid
        S1 == removeListener(S, localTrack, id)
        created == asLocalTrackPublication(localTrack, sid)
        S2 == publishedKindTracksSet(
                  [S1 EXCEPT !.trackPublications = MapSet(@, sid, created),
                             !.created = Append(@, created)],
                  kind(localTrack), sid, created)
        S3 == announce(S2, localTrack, created)
    IN  resolve(S3, localTrack, id, created, "sid")

updatedSid(S, localTrack, id) ==
    LET sid == S.sigTracks[localTrack].sid
        S1 == removeListener(S, localTrack, id)
        found == getTrackPublication(S1.trackPublications, localTrack)
        created == asLocalTrackPublication(localTrack, sid)
        S2 == IF found # NoPub
              THEN S1
              ELSE publishedKindTracksSet(
                       [S1 EXCEPT !.trackPublications = MapSet(@, sid, created),
                                  !.created = Append(@, created)],
                       kind(localTrack), sid, created)
        localTrackPublication == IF found # NoPub THEN found ELSE created
        S3 == announce(S2, localTrack, localTrackPublication)
    IN  resolve(S3, localTrack, id, localTrackPublication, "sid")

\* Mutant: a notification without sid ends the wait.
updatedGivesUp(S, localTrack, id) ==
    IF S.sigTracks[localTrack].error # NoError THEN updatedError(S, localTrack, id)
    ELSE IF localTrack \notin S.tracks THEN updatedUnpublished(S, localTrack, id)
    ELSE IF S.sigTracks[localTrack].sid = NoSid
    THEN updatedUnpublished(S, localTrack, id)
    ELSE updatedSid(S, localTrack, id)

updated(S, localTrack, id) ==
    IF S.sigTracks[localTrack].error # NoError THEN updatedError(S, localTrack, id)
    ELSE IF localTrack \notin S.tracks THEN updatedUnpublished(S, localTrack, id)
    ELSE IF S.sigTracks[localTrack].sid = NoSid THEN S
    ELSE updatedSid(S, localTrack, id)

\* trackSignaling.emit('updated'): every listener attached when the
\* notification starts is called, in the order of attachment.
RECURSIVE callListeners(_, _, _)
callListeners(S, t, listeners) ==
    IF listeners = <<>>
    THEN S
    ELSE callListeners(updated(S, t, Head(listeners).id), t, Tail(listeners))

emitUpdated(S, t) == callListeners(S, t, S.sigTracks[t].listeners)

\* trackSignaling.publishFailed(error): the record is marked failed and
\* notifies 'updated'.
publishFailed(S, t, error) ==
    emitUpdated([S EXCEPT !.sigTracks[t].error = error,
                          !.calls = Append(@, <<"publishFailed", t>>)], t)

\* trackSignaling.setSid(sid): the record gets its sid and notifies 'updated'.
setSid(S, t, sid) ==
    emitUpdated([S EXCEPT !.sigTracks[t].sid = sid], t)

\* trackSignaling.enable() / trackSignaling.disable(): the record's enabled
\* flag follows the track's and the record notifies 'updated'.
signalingEnable(S, t, b) ==
    emitUpdated([S EXCEPT !.calls = Append(@, <<IF b THEN "enable" ELSE "disable", t>>)], t)

localTrackEnabled(S, t) == signalingEnable(S, t, TRUE)
\* Mutant: the handler of 'trackDisabled' enables the record.
localTrackDisabledEnables(S, t) == signalingEnable(S, t, TRUE)
localTrackDisabled(S, t) == signalingEnable(S, t, FALSE)

\* localTrack.enable(b): the track emits 'enabled' or 'disabled'; the
\* Participant re-emits it as 'trackEnabled' or 'trackDisabled' for a track
\* of its registry until it is disconnected.
trackEnable(S, t, b) ==
    IF t \notin S.tracks \/ S.state = "disconnected"
    THEN S
    ELSE LET S1 == emit(S, Event(IF b THEN "trackEnabled" ELSE "trackDisabled",
                                 t, NoPub, NoError))
         IN  IF S1.handlers # "attached" THEN S1
             ELSE IF ~S1.sigTracks[t].exists THEN [S1 EXCEPT !.threw = TRUE]
             ELSE IF b THEN localTrackEnabled(S1, t)
             ELSE localTrackDisabled(S1, t)

\* ------------------------------------------------------- return values
\* What a call returns: a Promise still pending (the Promise id of track t),
\* a Promise already resolved or rejected, a plain value, or a thrown error.
Ret(k, t, id, pub, error) ==
    [kind |-> k, track |-> t, id |-> id, pub |-> pub, error |-> error]
NoRet == Ret("none", NoTrack, 0, NoPub, NoError)
return(S, r) == [S EXCEPT !.ret = r]

\* Mutant: the listener of the new Promise takes the place of those attached.
newPromiseReplaces(S, localTrack, swallowed) ==
    return([S EXCEPT !.sigTracks[localTrack].listeners = <<Promise(1, swallowed)>>],
           Ret("pending", localTrack, 1, NoPub, NoError))

\* new Promise((resolve, reject) => { ...; trackSignaling.on('updated', updated); })
newPromise(S, localTrack, swallowed) ==
    LET ls == S.sigTracks[localTrack].listeners
        id == Min((1..(Len(ls) + 1)) \ {ls[k].id : k \in 1..Len(ls)})
    IN  IF Len(ls) >= MaxListeners
        THEN [S EXCEPT !.ok = FALSE]
        ELSE return([S EXCEPT !.sigTracks[localTrack].listeners =
                                  Append(@, Promise(id, swallowed))],
                    Ret("pending", localTrack, id, NoPub, NoError))

_getOrCreateLocalTrackPublication(S, localTrack, swallowed) ==
    LET localTrackPublication == getTrackPublication(S.trackPublications, localTrack)
    IN  IF localTrackPublication # NoPub
        THEN return(S, Ret("value", NoTrack, 0, localTrackPublication, NoError))
        ELSE IF ~S.sigTracks[localTrack].exists
        THEN return(S, Ret("rejected", NoTrack, 0, NoPub, "unexpected"))
        ELSE newPromise(S, localTrack, swallowed)

\* util.asLocalTrack(localTrackOrMediaStreamTrack, options): a LocalTrack is
\* returned as it is, a MediaStreamTrack as the LocalTrack that wraps it.
asLocalTrack(x) ==
    IF x \in Tracks THEN x ELSE CHOOSE t \in Tracks : mediaStreamTrack(t) = x

\* track.id of a LocalTrack or of a MediaStreamTrack (the registry's key).
trackId(x) == asLocalTrack(x)

publishTrack(S, localTrackOrMediaStreamTrack) ==
    LET trackPublication ==
            getTrackPublication(S.trackPublications, localTrackOrMediaStreamTrack)
    IN  IF trackPublication # NoPub
        THEN return(S, Ret("resolved", NoTrack, 0, trackPublication, NoError))
        ELSE IF localTrackOrMediaStreamTrack \notin Inputs
        THEN return(S, Ret("rejected", NoTrack, 0, NoPub, "invalidType"))
        ELSE LET localTrack == asLocalTrack(localTrackOrMediaStreamTrack)
             IN  _getOrCreateLocalTrackPublication(
                     _addTrack(S, localTrack), localTrack, FALSE)

\* ------------------------------------------------------- publishTracks
\* The Promise of Promise.all(promises): its status, and what is known of
\* each element of promises.
NoJoin == [status |-> "none", items |-> <<>>, error |-> NoError]
Item(r) ==
    [status |-> IF r.kind \in {"resolved", "value"} THEN "resolved" ELSE r.kind,
     track |-> r.track, id |-> r.id, pub |-> r.pub, error |-> r.error]

\* Promise.all: rejected with the first rejection, resolved when every
\* element is resolved, pending otherwise.
PromiseAll(items) ==
    LET rejected == {k \in 1..Len(items) : items[k].status = "rejected"}
    IN  IF rejected # {}
        THEN [status |-> "rejected", items |-> items, error |-> items[Min(rejected)].error]
        ELSE IF \A k \in 1..Len(items) : items[k].status = "resolved"
        THEN [status |-> "resolved", items |-> items, error |-> NoError]
        ELSE [status |-> "pending", items |-> items, error |-> NoError]

\* The reaction of Promise.all to the settlement s of one of its elements.
reactOne(j, s) ==
    IF j.status # "pending" \/ ~s.first
    THEN j
    ELSE PromiseAll(
             [k \in 1..Len(j.items) |->
                 IF /\ j.items[k].status = "pending"
                    /\ j.items[k].track = s.track
                    /\ j.items[k].id = s.id
                 THEN [j.items[k] EXCEPT !.status = s.outcome, !.pub = s.pub,
                                         !.error = s.error]
                 ELSE j.items[k]])

RECURSIVE react(_, _)
react(j, settled) ==
    IF settled = <<>> THEN j ELSE react(reactOne(j, Head(settled)), Tail(settled))

\* Mutant: tracks.map stops at the first element whose publishTrack is
\* rejected at once.
RECURSIVE mapPublishTrackUntilRejected(_, _, _)
mapPublishTrackUntilRejected(S, tracks, items) ==
    IF tracks = <<>> \/ \E k \in 1..Len(items) : items[k].status = "rejected"
    THEN [S EXCEPT !.join = PromiseAll(items),
                   !.ret = Ret("join", NoTrack, 0, NoPub, NoError)]
    ELSE LET S1 == publishTrack(S, Head(tracks))
         IN  mapPublishTrackUntilRejected(S1, Tail(tracks), Append(items, Item(S1.ret)))

\* tracks.map(this.publishTrack, this), then Promise.all of the results.
RECURSIVE mapPublishTrack(_, _, _)
mapPublishTrack(S, tracks, items) ==
    IF tracks = <<>>
    THEN [S EXCEPT !.join = PromiseAll(items),
                   !.ret = Ret("join", NoTrack, 0, NoPub, NoError)]
    ELSE LET S1 == publishTrack(S, Head(tracks))
         IN  mapPublishTrack(S1, Tail(tracks), Append(items, Item(S1.ret)))

\* Array.isArray(tracks); NotArray stands for every value that is no array.
NotArray == <<"notArray">>
isArray(tracks) == tracks # NotArray

publishTracks(S, tracks) ==
    IF ~isArray(tracks)
    THEN return(S, Ret("throw", NoTrack, 0, NoPub, "invalidType"))
    ELSE mapPublishTrack(S, tracks, <<>>)

\* Mutant: the LocalTrackPublication leaves only the map of its kind.
deletePublicationKindOnly(S, localTrack, localTrackPublication) ==
    publishedKindTracksDelete(S, kind(localTrack), localTrackPublication.trackSid)

\* unpublishTrack: the LocalTrackPublication leaves both publication maps.
deletePublication(S, localTrack, localTrackPublication) ==
    [publishedKindTracksDelete(S, kind(localTrack), localTrackPublication.trackSid)
        EXCEPT !.trackPublications = MapDelete(@, localTrackPublication.trackSid)]

\* unpublishTrack, once the track was found in the registry.
unpublishRegistered(S, localTrack) ==
    IF ~S.sigTracks[localTrack].exists
    THEN return(S, Ret("throw", NoTrack, 0, NoPub, "TypeError"))
    ELSE LET S1 == publishFailed(S, localTrack, "unpublished")
             localTrackPublication ==
                 getTrackPublication(S1.trackPublications, localTrack)
             S2 == IF localTrackPublication # NoPub
                   THEN deletePublication(S1, localTrack, localTrackPublication)
                   ELSE S1
             S3 == _removeTrack(S2, localTrack)
         IN  return(S3, Ret("value", NoTrack, 0, localTrackPublication, NoError))

\* Mutant: the track is not looked up in the registry.
unpublishTrackUnchecked(S, track) == unpublishRegistered(S, trackId(track))

unpublishTrack(S, track) ==
    IF track \notin Inputs
    THEN return(S, Ret("throw", NoTrack, 0, NoPub, "invalidType"))
    ELSE IF trackId(track) \notin S.tracks
    THEN return(S, Ret("value", NoTrack, 0, NoPub, NoError))
    ELSE unpublishRegistered(S, trackId(track))

\* tracks.reduce of unpublishTracks: the publications that are not null are
\* concatenated in order; an exception of unpublishTrack ends the reduction.
RECURSIVE reduceUnpublishTrack(_, _, _)
reduceUnpublishTrack(S, tracks, unpublishedTracks) ==
    IF tracks = <<>>
    THEN [S EXCEPT !.array = unpublishedTracks,
                   !.ret = Ret("array", NoTrack, 0, NoPub, NoError)]
    ELSE LET S1 == unpublishTrack(S, Head(tracks))
             unpublishedTrack == S1.ret.pub
         IN  IF S1.ret.kind = "throw"
             THEN S1
             ELSE reduceUnpublishTrack(S1, Tail(tracks),
                      IF unpublishedTrack # NoPub
                      THEN Append(unpublishedTracks, unpublishedTrack)
                      ELSE unpublishedTracks)

unpublishTracks(S, tracks) ==
    IF ~isArray(tracks)
    THEN return(S, Ret("throw", NoTrack, 0, NoPub, "invalidType"))
    ELSE reduceUnpublishTrack(S, tracks, <<>>)

\* track.stop(): a call on the track, outside the LocalParticipant.
trackStop(S, t) == [S EXCEPT !.calls = Append(@, <<"stop", t>>)]

\* removeTrack(track, stop); stop is "true", "false" or "undefined".
removeTrack(S, track, stop) ==
    LET S1 == unpublishTrack(S, track)
    IN  IF S1.ret.kind = "throw"
        THEN S1
        ELSE LET publication == S1.ret.pub
                 removed == IF publication # NoPub THEN publication.track ELSE NoTrack
                 stop1 == IF stop \in {"true", "false"} THEN stop = "true" ELSE TRUE
                 S2 == IF removed # NoTrack /\ stop1 THEN trackStop(S1, removed) ELSE S1
             IN  return(S2, Ret("value", removed, 0, NoPub, NoError))

\* The 'stateChanged' listener of _handleTrackSignalingEvents; stopCalls
\* counts the stops it makes.
RECURSIVE stopTracks(_, _)
stopTracks(S, ts) ==
    IF ts = {}
    THEN S
    ELSE LET t == CHOOSE u \in ts : TRUE
         IN  stopTracks(trackStop([S EXCEPT !.stopCalls[t] = @ + 1], t), ts \ {t})

\* The listener removes itself and the four handlers of the controller.
removeListeners(S) ==
    [S EXCEPT !.handlers = "detached",
              !.calls = @ \o << <<"removeListener", "stateChanged">>,
                                <<"removeListener", "trackAdded">>,
                                <<"removeListener", "trackDisabled">>,
                                <<"removeListener", "trackEnabled">>,
                                <<"removeListener", "trackRemoved">> >>]

\* Mutant: every state change tears down.
stateChangedAnyState(S, st) ==
    stopTracks(removeListeners(S), S.tracksToStop)

\* Mutant: the tracks are stopped before the handlers are removed.
stateChangedStopsFirst(S, st) ==
    IF st = "disconnected"
    THEN removeListeners(stopTracks(S, S.tracksToStop))
    ELSE S

stateChanged(S, st) ==
    IF st = "disconnected"
    THEN stopTracks(removeListeners(S), S.tracksToStop)
    ELSE S

\* ------------------------------------------------------- construction
\* _handleTrackSignalingEvents(): the forEach over the tracks given at
\* construction; the rejection of each Promise is swallowed.
RECURSIVE handleInitialTracks(_, _)
handleInitialTracks(S, order) ==
    IF order = <<>>
    THEN S
    ELSE LET t == Head(order)
             S1 == IF t \in S.tracks
                   THEN _getOrCreateLocalTrackPublication(localTrackAdded(S, t), t, TRUE)
                   ELSE S
         IN  handleInitialTracks(S1, Tail(order))

\* Mutant: the data tracks are stopped with the others.
tracksToStopOfAnyKind(localTracks, shouldStopLocalTracks) ==
    IF shouldStopLocalTracks THEN localTracks ELSE {}

tracksToStopOf(localTracks, shouldStopLocalTracks) ==
    IF shouldStopLocalTracks THEN {t \in localTracks : kind(t) # "data"} ELSE {}

\* Mutant: the state of the participant is not looked at.
_handleTrackSignalingEventsAnyState(S) ==
    [handleInitialTracks(S, TrackOrder) EXCEPT !.handlers = "attached", !.ret = NoRet]

_handleTrackSignalingEvents(S) ==
    IF S.state = "disconnected"
    THEN S
    ELSE [handleInitialTracks(S, TrackOrder) EXCEPT !.handlers = "attached", !.ret = NoRet]

constructor(localTracks, shouldStopLocalTracks, st) ==
    _handleTrackSignalingEvents(
        [state |-> st,
         handlers |-> "never",
         tracks |-> localTracks,
         sigTracks |-> [t \in Tracks |-> NoRecord],
         trackPublications |-> <<>>,
         audioTrackPublications |-> <<>>,
         videoTrackPublications |-> <<>>,
         dataTrackPublications |-> <<>>,
         timers |-> <<>>,
         tracksToStop |-> tracksToStopOf(localTracks, shouldStopLocalTracks),
         stopCalls |-> [t \in Tracks |-> 0],
         orphaned |-> FALSE,
         join |-> NoJoin, array |-> <<>>, created |-> <<>>,
         calls |-> <<>>,
         threw |-> FALSE,
         emitted |-> <<>>,
         settled |-> <<>>,
         ret |-> NoRet,
         ok |-> TRUE])

\* The end of a turn: a record that left signaling.tracks is unreachable, and
\* so are the listeners still attached to it.
endTurn(S) ==
    [S EXCEPT
        !.orphaned = @ \/ \E t \in Tracks :
                              ~S.sigTracks[t].exists /\ S.sigTracks[t].listeners # <<>>,
        !.sigTracks = [t \in Tracks |-> IF @[t].exists THEN @[t] ELSE NoRecord]]

\* ---------------------------------------------------------------- state
VARIABLES
    state,                    \* signaling.state
    handlers,                 \* the controller's listeners: never | attached | detached
    tracks,                   \* the track registry (Participant.tracks)
    sigTracks,                \* signaling.tracks: the TrackSignaling records
    trackPublications,
    audioTrackPublications,
    videoTrackPublications,
    dataTrackPublications,
    timers,                   \* callbacks set with setTimeout, oldest first
    tracksToStop,             \* _tracksToStop
    stopCalls,                \* calls of track.stop() made by the teardown, per track
    orphaned,                 \* a pending Promise lost its TrackSignaling record
    join,                     \* the Promise publishTracks returned in the last turn
    array,                    \* the array unpublishTracks returned in the last turn
    created,                  \* the LocalTrackPublications constructed in the last turn
    calls,                    \* calls of the signaling collaborator during the last turn
    emitted,                  \* notifications emitted during the last turn
    settled,                  \* resolve / reject calls made during the last turn
    last,                     \* the last turn: operation, argument, return value
    pre                       \* the program state in which the last turn started

vars ==
    <<state, handlers, tracks, sigTracks, trackPublications,
      audioTrackPublications, videoTrackPublications, dataTrackPublications,
      timers, tracksToStop, stopCalls, orphaned, join, array, created, calls, emitted,
      settled, last,
      pre>>

\* The program state at the start of a turn.
Now ==
    [state |-> state, handlers |-> handlers, tracks |-> tracks,
     sigTracks |-> sigTracks, trackPublications |-> trackPublications,
     audioTrackPublications |-> audioTrackPublications,
     videoTrackPublications |-> videoTrackPublications,
     dataTrackPublications |-> dataTrackPublications,
     timers |-> timers, tracksToStop |-> tracksToStop, stopCalls |-> stopCalls,
     orphaned |-> orphaned, join |-> NoJoin, array |-> <<>>, created |-> <<>>,
     calls |-> <<>>, threw |-> FALSE,
     emitted |-> <<>>, settled |-> <<>>, ret |-> NoRet, ok |-> TRUE]

\* The program state as a turn finds it, kept for the turn's observers.
Before ==
    [state |-> state, handlers |-> handlers, tracks |-> tracks,
     sigTracks |-> sigTracks, trackPublications |-> trackPublications,
     audioTrackPublications |-> audioTrackPublications,
     videoTrackPublications |-> videoTrackPublications,
     dataTrackPublications |-> dataTrackPublications,
     timers |-> timers, tracksToStop |-> tracksToStop, stopCalls |-> stopCalls]

\* A turn starts when the event loop is idle; the program state at its end
\* becomes the next state, with what the turn emitted, settled and returned.
Turn(S0, op, arg) ==
    LET S == endTurn(S0)
    IN  /\ last.op = "idle"
        /\ S.ok
        /\ state' = S.state
        /\ handlers' = S.handlers
        /\ tracks' = S.tracks
        /\ sigTracks' = S.sigTracks
        /\ trackPublications' = S.trackPublications
        /\ audioTrackPublications' = S.audioTrackPublications
        /\ videoTrackPublications' = S.videoTrackPublications
        /\ dataTrackPublications' = S.dataTrackPublications
        /\ timers' = S.timers
        /\ tracksToStop' = S.tracksToStop
        /\ stopCalls' = S.stopCalls
        /\ orphaned' = S.orphaned
        /\ join' = S.join
        /\ array' = S.array
        /\ created' = S.created
        /\ calls' = S.calls
        /\ emitted' = S.emitted
        /\ settled' = S.settled
        /\ last' = [op |-> op, arg |-> arg,
                    ret |-> IF S.threw THEN Ret("throw", NoTrack, 0, NoPub, "TypeError")
                            ELSE S.ret]
        /\ pre' = Before

Init ==
    \E localTracks \in SUBSET Tracks, shouldStopLocalTracks \in BOOLEAN,
       st \in {"connecting", "connected", "disconnected"} :
        LET S == endTurn(constructor(localTracks, shouldStopLocalTracks, st))
        IN  /\ state = S.state
            /\ handlers = S.handlers
            /\ tracks = S.tracks
            /\ sigTracks = S.sigTracks
            /\ trackPublications = S.trackPublications
            /\ audioTrackPublications = S.audioTrackPublications
            /\ videoTrackPublications = S.videoTrackPublications
            /\ dataTrackPublications = S.dataTrackPublications
            /\ timers = S.timers
            /\ tracksToStop = S.tracksToStop
            /\ stopCalls = S.stopCalls
            /\ orphaned = S.orphaned
            /\ join = S.join
            /\ array = S.array
            /\ created = S.created
            /\ calls = S.calls
            /\ emitted = S.emitted
            /\ settled = S.settled
            /\ last = [op |-> "constructor",
                       arg |-> <<localTracks, shouldStopLocalTracks, st>>,
                       ret |-> S.ret]
            /\ pre = Before

\* ---------------------------------------------------------------- turns
PublishTrack(x) ==
    /\ Turn(publishTrack(Now, x), "publishTrack", x)

UnpublishTrack(x) ==
    /\ Turn(unpublishTrack(Now, x), "unpublishTrack", x)

\* The arrays given to publishTracks.
PublishArrays == {<<>>, <<"a1", "d1">>, <<Junk, "d1">>, NotArray}

PublishTracks(xs) ==
    /\ Turn(publishTracks(Now, xs), "publishTracks", xs)

\* The arrays given to unpublishTracks.
UnpublishArrays == {<<"a1", "d1">>, <<"d1", "a1">>, <<Junk, "a1">>, NotArray}

UnpublishTracks(xs) ==
    /\ Turn(unpublishTracks(Now, xs), "unpublishTracks", xs)

RemoveTrack(x, stop) ==
    /\ Turn(removeTrack(Now, x, stop), "removeTrack", <<x, stop>>)

\* The sids in use: the server never assigns one of them again.
UsedSids ==
    {sigTracks[t].sid : t \in Tracks}
    \cup MapKeys(trackPublications)
    \cup {timers[k].pub.trackSid : k \in 1..Len(timers)}

FreshSid(t) == <<t, Min({n \in 1..MaxSids : <<t, n>> \notin UsedSids})>>

\* The server acknowledges the track: trackSignaling.setSid(sid).
SignalingSid(t) ==
    /\ sigTracks[t].exists
    /\ sigTracks[t].sid = NoSid
    /\ sigTracks[t].error = NoError
    /\ Sids(t) \ UsedSids # {}
    /\ Turn(setSid(Now, t, FreshSid(t)), "setSid", t)

\* The server rejects the track: trackSignaling.publishFailed(error).
SignalingError(t) ==
    /\ sigTracks[t].exists
    /\ sigTracks[t].sid = NoSid
    /\ sigTracks[t].error = NoError
    /\ Turn(publishFailed(Now, t, "sigErr"), "publishFailed", t)

\* signaling changes its state and notifies 'stateChanged'.
StateChanged(st) ==
    /\ \/ st = "connected" /\ state = "connecting"
       \/ st = "disconnected"
    /\ LET S == [Now EXCEPT !.state = st]
       IN  Turn(IF handlers = "attached" THEN stateChanged(S, st) ELSE S,
                "stateChanged", st)

\* The application enables a disabled LocalTrack of the registry, or disables
\* an enabled one.
SetEnabled(t, b) ==
    /\ t \in tracks
    /\ Turn(trackEnable(Now, t, b), IF b THEN "enable" ELSE "disable", t)

\* The oldest timer expires and its callback emits its notification.
RunTimer ==
    /\ timers # <<>>
    /\ Turn(emit([Now EXCEPT !.timers = Tail(@)], Head(timers)), "timer", "none")

\* The turn is over: control is back in the event loop, and what the turn
\* emitted, settled and returned has been seen.
Idle ==
    /\ last.op # "idle"
    /\ calls' = <<>>
    /\ emitted' = <<>>
    /\ settled' = <<>>
    /\ last' = [op |-> "idle", arg |-> "none", ret |-> NoRet]
    /\ pre' = Before
    /\ join' = NoJoin
    /\ array' = <<>>
    /\ created' = <<>>
    /\ UNCHANGED <<state, handlers, tracks, sigTracks, trackPublications,
                   audioTrackPublications, videoTrackPublications,
                   dataTrackPublications, timers, tracksToStop, stopCalls, orphaned>>

Next ==
    \/ Idle
    \/ \E x \in Inputs : PublishTrack(x)
    \/ \E x \in Inputs : UnpublishTrack(x)
    \/ \E xs \in PublishArrays : PublishTracks(xs)
    \/ \E xs \in UnpublishArrays : UnpublishTracks(xs)
    \/ \E x \in Inputs, stop \in {"true", "false", "undefined"} : RemoveTrack(x, stop)
    \/ \E t \in Tracks : SignalingSid(t)
    \/ \E t \in Tracks : SignalingError(t)
    \/ \E st \in {"connected", "disconnected"} : StateChanged(st)
    \/ \E t \in Tracks, b \in BOOLEAN : SetEnabled(t, b)
    \/ RunTimer

Spec == Init /\ [][Next]_vars

\* ================================================================ claims
\* The claims are about the state a turn leaves (the variables), compared
\* with the state it found (pre), and what it did (calls, emitted, settled,
\* last).
Range(q) == {q[k] : k \in 1..Len(q)}
Occurrences(q, e) == Cardinality({k \in 1..Len(q) : q[k] = e})
Publications == Range(MapValues(trackPublications))
Listeners(t) == Range(sigTracks[t].listeners)
\* The Promises that waited on the record of track t when the turn started.
Waiting(t) == Range(pre.sigTracks[t].listeners)
Settlements(t, p) == {k \in 1..Len(settled) : settled[k].track = t /\ settled[k].id = p.id}

\* ------------------------------------------------------------------ C1
\* C1: in every reachable state every LocalTrackPublication of
\* trackPublications refers to a track that is in the track registry.
RegistryConsistency == \A p \in Publications : p.track \in tracks

\* Witness of C1: an unpublishTrack has just removed one publication while
\* another one stays published.
RegistryConsistencyWitness ==
    /\ last.op = "unpublishTrack"
    /\ last.ret.pub # NoPub
    /\ Publications # {}

\* ------------------------------------------------------------------ C2
\* The turns that make the TrackSignaling record of track t report: a sid,
\* an error, or the unpublishing of its registered track.
UnpublishOps == {"unpublishTrack", "unpublishTracks", "removeTrack"}
\* unpublishTrack(x) returns, in the state the turn started in.
Passes(x) ==
    /\ x \in Inputs
    /\ trackId(x) \in pre.tracks => pre.sigTracks[trackId(x)].exists
\* The turn has run unpublishTrack for the registered track t to its end.
Unpublishes(t) ==
    /\ t \in pre.tracks
    /\ pre.sigTracks[t].exists
    /\ \/ last.op = "unpublishTrack" /\ trackId(last.arg) = t
       \/ last.op = "removeTrack" /\ last.arg[1] \in Inputs /\ trackId(last.arg[1]) = t
       \/ /\ last.op = "unpublishTracks"
          /\ isArray(last.arg)
          /\ \E k \in 1..Len(last.arg) :
                /\ \A j \in 1..k : Passes(last.arg[j])
                /\ trackId(last.arg[k]) = t
Reports(t) ==
    \/ /\ last.op \in {"setSid", "publishFailed"}
       /\ last.ret.kind # "throw"
       /\ trackId(last.arg) = t
    \/ Unpublishes(t)

\* C2: a Promise attached to a TrackSignaling record is pending and none was
\* lost with its record; when the record of a track reports, every Promise
\* that waited on it is settled exactly once in that turn and its listener
\* is detached; a turn settles no other Promise; a settlement is the first
\* of its Promise and is: resolved with a publication when a sid is
\* reported, rejected with the signaling error when an error is reported,
\* rejected as unpublished when the track is unpublished.
SingleSettlement ==
    /\ ~orphaned
    /\ \A t \in Tracks : \A p \in Listeners(t) : p.outcome = "pending"
    /\ \A t \in Tracks : Reports(t) =>
          /\ sigTracks[t].listeners = <<>>
          /\ \A p \in Waiting(t) : Cardinality(Settlements(t, p)) = 1
    /\ \A k \in 1..Len(settled) :
          /\ settled[k].first
          /\ Reports(settled[k].track)
          /\ \E p \in Waiting(settled[k].track) : p.id = settled[k].id
          /\ settled[k].outcome \in {"resolved", "rejected"}
          /\ settled[k].outcome = "resolved" <=> last.op = "setSid"
          /\ settled[k].outcome = "resolved" <=> settled[k].pub # NoPub
          /\ settled[k].error = "sigErr" <=> last.op = "publishFailed"
          /\ settled[k].error = "unpublished" <=> last.op \in UnpublishOps

\* Witness of C2: unpublishTrack has settled two Promises of one track.
SingleSettlementWitness ==
    /\ Len(settled) = 2
    /\ settled[1].track = settled[2].track
    /\ last.op = "unpublishTrack"

\* ------------------------------------------------------------------ C3
Scheduled == Range(timers) \cup Range(emitted)

\* C3: a pending publish ended by unpublishTrack is rejected without any
\* 'trackPublicationFailed': none carrying the unpublished condition is ever
\* scheduled or emitted.
UnpublishPendingIsSilent ==
    \A e \in Scheduled : e.type = "trackPublicationFailed" => e.error # "unpublished"

\* ------------------------------------------------------------------ C4
Rejected(t, p) == \E k \in Settlements(t, p) : settled[k].outcome = "rejected"

\* C4: unpublishTrack(track) while Promises of publishTrack wait on the
\* record of the track rejects each of them, returns
\* null, leaves the track out of the registry, emits 'trackRemoved' once, and
\* leaves no publication of the track nor a listener that could insert one.
PublishUnpublishRace ==
    \A t \in Tracks :
        (last.op = "unpublishTrack" /\ trackId(last.arg) = t /\ Waiting(t) # {}) =>
            /\ \A p \in Waiting(t) : Rejected(t, p)
            /\ last.ret = Ret("value", NoTrack, 0, NoPub, NoError)
            /\ t \in pre.tracks
            /\ t \notin tracks
            /\ Occurrences(emitted, Event("trackRemoved", t, NoPub, NoError)) = 1
            /\ trackPublications = pre.trackPublications
            /\ \A p \in Publications : p.track # t
            /\ Listeners(t) = {}

\* Witness of C4: unpublishTrack has rejected a pending Promise, returned
\* null and emitted 'trackRemoved'.
PublishUnpublishRaceWitness ==
    /\ last.op = "unpublishTrack"
    /\ last.ret.pub = NoPub
    /\ \E k \in 1..Len(settled) : settled[k].outcome = "rejected"
    /\ \E e \in Range(emitted) : e.type = "trackRemoved"

\* ------------------------------------------------------------------ C5
WasPublished(x) ==
    \E k \in 1..Len(pre.trackPublications) :
        pre.trackPublications[k].value.track = asLocalTrack(x)
PublicationBefore(x) ==
    LET k == CHOOSE j \in 1..Len(pre.trackPublications) :
                 pre.trackPublications[j].value.track = asLocalTrack(x)
    IN  pre.trackPublications[k].value

\* C5: publishTrack of a LocalTrack or MediaStreamTrack whose track has a
\* publication resolves with that publication and changes nothing: no
\* registry or map mutation, no call of signaling, no listener, no timer, no
\* notification.
IdempotentPublish ==
    (last.op = "publishTrack" /\ WasPublished(last.arg)) =>
        /\ last.ret = Ret("resolved", NoTrack, 0, PublicationBefore(last.arg), NoError)
        /\ Before = pre
        /\ calls = <<>>
        /\ emitted = <<>>
        /\ settled = <<>>

\* Witness of C5: publishTrack of the MediaStreamTrack of a published
\* LocalTrack has resolved with the publication.
IdempotentPublishWitness ==
    /\ last.op = "publishTrack"
    /\ last.arg \in MediaStreamTracks
    /\ last.ret.kind = "resolved"
    /\ last.ret.pub \in Publications

\* ------------------------------------------------------------------ C6
Failed(t, error) == Event("trackPublicationFailed", t, NoPub, error)

\* An error was reported for track t while Promises waited on its record.
ErrorReported(t) ==
    last.op = "publishFailed" /\ last.arg = t /\ Waiting(t) # {}

\* What an error reported for a pending track does in every case.
FailureEffects(t) ==
    /\ \A p \in Waiting(t) :
          \E k \in Settlements(t, p) :
              settled[k].outcome = "rejected" /\ settled[k].error = "sigErr"
    /\ t \in pre.tracks
    /\ t \notin tracks
    /\ Occurrences(emitted, Event("trackRemoved", t, NoPub, NoError)) = 1
    /\ trackPublications = pre.trackPublications
    /\ \A p \in Publications : p.track # t
    /\ Len(timers) > Len(pre.timers)
    /\ \A k \in 1..Len(timers) :
          IF k <= Len(pre.timers)
          THEN timers[k] = pre.timers[k]
          ELSE timers[k] = Failed(t, "sigErr")

Withdrawn(t) == \E k \in 1..Len(calls) : calls[k] = <<"removeTrack", t>>

\* 'trackPublicationFailed' is emitted by an expired timer only.
FailedIsDeferred ==
    \A e \in Range(emitted) :
        e.type = "trackPublicationFailed" =>
            last.op = "timer" /\ pre.timers # <<>> /\ e = Head(pre.timers)

\* C6 as stated: an error reported for a pending track rejects the pending
\* publish with it, removes the track from the registry with 'trackRemoved',
\* withdraws the track from signaling, creates no publication, and defers
\* 'trackPublicationFailed' to a later turn.
SignalingFailureAlwaysWithdraws ==
    /\ \A t \in Tracks : ErrorReported(t) => FailureEffects(t) /\ Withdrawn(t)
    /\ FailedIsDeferred

\* C6 amended: as above, but the track is withdrawn from signaling exactly
\* when the listeners of the LocalParticipant are still attached, that is,
\* before 'disconnected'.
SignalingFailure ==
    /\ \A t \in Tracks : ErrorReported(t) =>
          /\ FailureEffects(t)
          /\ Withdrawn(t) <=> pre.handlers = "attached"
    /\ FailedIsDeferred

\* Witness of C6: an error was reported for a pending track and the track
\* was withdrawn from signaling.
SignalingFailureWitness ==
    /\ last.op = "publishFailed"
    /\ \E k \in 1..Len(settled) : settled[k].error = "sigErr"
    /\ calls = <<<<"publishFailed", last.arg>>, <<"removeTrack", last.arg>>>>
    /\ \E k \in 1..Len(timers) : timers[k] = Failed(last.arg, "sigErr")

\* ------------------------------------------------------------------ C7
KindMap(S, k) ==
    CASE k = "audio" -> S.audioTrackPublications
      [] k = "video" -> S.videoTrackPublications
      [] OTHER -> S.dataTrackPublications

\* A sid was reported for the registered track t while Promises waited on
\* its record.
SidReported(t) ==
    last.op = "setSid" /\ last.arg = t /\ Waiting(t) # {} /\ t \in pre.tracks

\* C7: a sid reported for a pending registered track inserts the
\* publication of that sid under the sid into trackPublications and into the
\* map of the track's kind only, and resolves every pending Promise with it;
\* publishTrack of a track that has a publication, or of its
\* MediaStreamTrack, resolves with that publication.
SuccessfulPublish ==
    /\ \A t \in Tracks : SidReported(t) =>
          LET sid == sigTracks[t].sid
              pub == [track |-> t, trackSid |-> sid]
              entry == [key |-> sid, value |-> pub]
          IN  /\ sid \in Sids(t)
              /\ pre.sigTracks[t].error = NoError
              /\ trackPublications = Append(pre.trackPublications, entry)
              /\ KindMap(Before, kind(t)) = Append(KindMap(pre, kind(t)), entry)
              /\ \A k \in {"audio", "video", "data"} \ {kind(t)} :
                    KindMap(Before, k) = KindMap(pre, k)
              /\ \A p \in Waiting(t) :
                    \E k \in Settlements(t, p) :
                        settled[k].outcome = "resolved" /\ settled[k].pub = pub
    /\ \A p \in Publications :
          \A x \in {p.track, mediaStreamTrack(p.track)} \cap Inputs :
              publishTrack(Now, x).ret = Ret("resolved", NoTrack, 0, p, NoError)

\* Witness of C7: a reported sid has resolved a pending Promise with the
\* publication of a data track, now in both maps.
SuccessfulPublishWitness ==
    /\ last.op = "setSid"
    /\ last.arg = "d1"
    /\ settled # <<>>
    /\ settled[1].pub \in Publications
    /\ dataTrackPublications # <<>>

\* ------------------------------------------------------------------ C8
IsPublished(e) == e.type = "trackPublished"

\* C8: the turn in which a sid resolves the pending Promises of a track
\* schedules one 'trackPublished' per Promise when signaling is connected,
\* and none otherwise; no other turn schedules 'trackPublished';
\* 'trackPublished' is emitted by such a timer only.
TrackPublishedPolicy ==
    /\ \A t \in Tracks : SidReported(t) =>
          /\ \A k \in 1..Len(settled) : settled[k].outcome = "resolved"
          /\ Len(settled) = Cardinality(Waiting(t))
          /\ state = pre.state
          /\ timers = pre.timers \o
                [k \in 1..(IF state = "connected" THEN Len(settled) ELSE 0) |->
                    Event("trackPublished", t, settled[1].pub, NoError)]
    /\ (\A t \in Tracks : ~SidReported(t)) =>
          \/ SelectSeq(timers, IsPublished) = SelectSeq(pre.timers, IsPublished)
          \/ last.op = "timer" /\ timers = Tail(pre.timers)
    /\ \A e \in Range(emitted) :
          IsPublished(e) => last.op = "timer" /\ pre.timers # <<>> /\ e = Head(pre.timers)

\* Witness of C8: a sid resolved a pending Promise while signaling was not
\* connected, and no 'trackPublished' is scheduled.
TrackPublishedPolicyWitness ==
    /\ last.op = "setSid"
    /\ state = "connecting"
    /\ \E k \in 1..Len(settled) : settled[k].outcome = "resolved"
    /\ trackPublications # <<>>
    /\ timers = <<>>

\* ------------------------------------------------------------------ C9
\* C9: once the LocalParticipant has seen signaling go to 'disconnected', it
\* emits no 'trackAdded', 'trackRemoved' or 'trackPublished'.
SilentAfterDisconnect ==
    handlers = "detached" =>
        \A e \in Range(emitted) :
            e.type \notin {"trackAdded", "trackRemoved", "trackPublished"}

\* ----------------------------------------------------------------- C10
\* C10: the change of the signaling state to 'disconnected' makes the
\* 'stateChanged' listener call stop() once on every track of _tracksToStop
\* and on no other track; in no other turn, a repeated 'disconnected'
\* included, does the listener call stop(); so it stops a track at most
\* once, and only a track of _tracksToStop.
DisconnectTeardown ==
    /\ \A t \in Tracks :
          /\ stopCalls[t] \in {0, 1}
          /\ stopCalls[t] = 1 => t \in tracksToStop /\ state = "disconnected"
    /\ IF last.op = "stateChanged" /\ last.arg = "disconnected"
          /\ pre.state # "disconnected"
       THEN /\ \A t \in Tracks :
                 stopCalls[t] = pre.stopCalls[t] + (IF t \in tracksToStop THEN 1 ELSE 0)
            /\ handlers = "detached"
       ELSE stopCalls = pre.stopCalls

\* Witness of C10: after 'disconnected' one track of the registry has been
\* stopped once and another one not at all.
DisconnectTeardownWitness ==
    /\ last.op = "stateChanged"
    /\ handlers = "detached"
    /\ \E t \in tracks : stopCalls[t] = 1
    /\ \E t \in tracks : stopCalls[t] = 0

\* ----------------------------------------------------------------- C11
PublishedBefore(t) ==
    \E k \in 1..Len(pre.trackPublications) : pre.trackPublications[k].value.track = t
Unpublished(t) == last.op = "unpublishTrack" /\ trackId(last.arg) = t /\ t \in pre.tracks

\* C11: unpublishTrack of a registered track that has a publication removes
\* the publication from trackPublications and from the map of its kind,
\* removes the track from the registry with one 'trackRemoved', and returns
\* the publication; of a registered track without publication it returns
\* null.
UnpublishResult ==
    \A t \in Tracks : Unpublished(t) =>
        IF PublishedBefore(t)
        THEN LET p == PublicationBefore(t)
                 entry == [key |-> p.trackSid, value |-> p]
             IN  /\ last.ret = Ret("value", NoTrack, 0, p, NoError)
                 /\ trackPublications = SelectSeq(pre.trackPublications, LAMBDA e : e # entry)
                 /\ KindMap(Before, kind(t)) =
                        SelectSeq(KindMap(pre, kind(t)), LAMBDA e : e # entry)
                 /\ entry \in Range(KindMap(pre, kind(t)))
                 /\ t \notin tracks
                 /\ Occurrences(emitted, Event("trackRemoved", t, NoPub, NoError)) = 1
        ELSE last.ret = Ret("value", NoTrack, 0, NoPub, NoError)

\* ----------------------------------------------------------------- C12
Null == Ret("value", NoTrack, 0, NoPub, NoError)

\* C12: unpublishTrack of a track that is not in the registry returns null,
\* leaves the registry, the publication maps, the TrackSignaling records and
\* the timers as they were, calls nothing, emits nothing and settles
\* nothing; so in the state a completed unpublishTrack leaves, unpublishTrack
\* of the same track is such a call.
UnregisteredUnpublishIsNoOp ==
    /\ (last.op = "unpublishTrack" /\ trackId(last.arg) \notin pre.tracks) =>
          /\ last.ret = Null
          /\ Before = pre
          /\ calls = <<>>
          /\ emitted = <<>>
          /\ settled = <<>>
    /\ (last.op = "unpublishTrack" /\ last.ret.kind # "throw") =>
          /\ trackId(last.arg) \notin tracks
          /\ unpublishTrack(Now, last.arg) = [Now EXCEPT !.ret = Null]

\* Witness of C12: unpublishTrack of an unregistered track has returned
\* null while another track is registered and published.
UnregisteredUnpublishWitness ==
    /\ last.op = "unpublishTrack"
    /\ trackId(last.arg) \notin pre.tracks
    /\ last.ret = Null
    /\ tracks # {}
    /\ trackPublications # <<>>

\* ----------------------------------------------------------------- C13
\* What Promise.all can hold for the publish of track t when a turn starts:
\* a Promise waiting on the record of t, or the publication of t.
ItemsBefore(t) ==
    {Item(Ret("pending", t, p.id, NoPub, NoError)) : p \in Waiting(t)}
    \cup {Item(Ret("resolved", NoTrack, 0, pre.trackPublications[k].value, NoError)) :
            k \in {j \in 1..Len(pre.trackPublications) :
                      pre.trackPublications[j].value.track = t}}

\* The pending Promises that publishTracks(<<a1, d1>>) can have returned
\* before the turn.
PendingJoins ==
    {j \in {PromiseAll(<<ia, id>>) : ia \in ItemsBefore("a1"), id \in ItemsBefore("d1")} :
        j.status = "pending"}

SettledAs(item, outcome) ==
    \E k \in 1..Len(settled) :
        /\ settled[k].track = item.track
        /\ settled[k].id = item.id
        /\ settled[k].outcome = outcome

\* C13, the call: publishTracks calls publishTrack for every element, also
\* behind an element that is rejected; the Promise it returns is rejected if
\* an element is rejected at once, resolved with the publications in order
\* if every element is published already, and pending otherwise.
PublishTracksCall ==
    (last.op = "publishTracks" /\ isArray(last.arg)) =>
        /\ Len(join.items) = Len(last.arg)
        /\ join = PromiseAll(join.items)
        /\ \A k \in 1..Len(last.arg) :
              LET x == last.arg[k]
                  item == join.items[k]
              IN  IF x \notin Inputs
                  THEN item.status = "rejected" /\ item.error = "invalidType"
                  ELSE /\ trackId(x) \in tracks
                       /\ \/ /\ item.status = "resolved"
                             /\ item.pub \in Publications
                             /\ item.pub.track = trackId(x)
                          \/ /\ item.status = "pending"
                             /\ item.track = trackId(x)
                             /\ \E p \in Listeners(trackId(x)) \ Waiting(trackId(x)) :
                                   p.id = item.id
                          \/ /\ item.status = "rejected"
                             /\ item.error = "unexpected"
                             /\ ~sigTracks[trackId(x)].exists
        /\ join.status = "rejected" <=>
              \E k \in 1..Len(join.items) : join.items[k].status = "rejected"
        /\ join.status = "resolved" <=>
              \A k \in 1..Len(join.items) : join.items[k].status = "resolved"

\* C13, the turns that settle a Promise: a pending Promise of publishTracks
\* is rejected in the turn that rejects one of its elements, with that error,
\* and resolved in the turn after which every element is resolved, with
\* their publications; the elements that are not settled in that turn keep
\* their listener and their registered track, and those resolved have their
\* publication.
PublishTracksSettlement ==
    settled # <<>> => \A j \in PendingJoins :
        LET r == react(j, settled)
            n == 1..Len(j.items)
        IN  /\ r.status = "rejected" <=>
                  \E k \in n : j.items[k].status = "pending"
                                  /\ SettledAs(j.items[k], "rejected")
            /\ r.status = "rejected" =>
                  \E k \in 1..Len(settled) :
                      settled[k].outcome = "rejected" /\ settled[k].error = r.error
            /\ r.status = "resolved" <=>
                  \A k \in n : \/ j.items[k].status = "resolved"
                               \/ SettledAs(j.items[k], "resolved")
            /\ r.status \in {"pending", "rejected", "resolved"}
            /\ \A k \in n :
                  /\ (r.items[k].status = "pending"
                        /\ ~SettledAs(j.items[k], "rejected")) =>
                        /\ r.items[k].track \in tracks
                        /\ \E p \in Listeners(r.items[k].track) : p.id = r.items[k].id
                  /\ (r.items[k].status = "resolved" /\ j.items[k].status = "pending") =>
                        /\ r.items[k].pub \in Publications
                        /\ r.items[k].pub.track = j.items[k].track

PublishTracksJoin == PublishTracksCall /\ PublishTracksSettlement

\* Witness of C13: publishTracks has returned a rejected Promise for an
\* array whose first element is no track, and its second element was
\* registered and waits for its sid.
PublishTracksJoinWitness ==
    /\ last.op = "publishTracks"
    /\ join.status = "rejected"
    /\ "d1" \in tracks \ pre.tracks
    /\ Listeners("d1") # {}

\* A pending Promise of publishTracks(<<a1, d1>>) is rejected by an error of
\* a1 while d1 keeps waiting.
PublishTracksRejectedLater ==
    /\ last.op = "publishFailed"
    /\ last.arg = "a1"
    /\ \E j \in PendingJoins : react(j, settled).status = "rejected"
    /\ Listeners("d1") # {}

\* ----------------------------------------------------------------- C14
\* The publications that the tracks of xs had when the turn started, in the
\* order of xs.
RECURSIVE PublicationsBeforeOf(_)
PublicationsBeforeOf(xs) ==
    IF xs = <<>>
    THEN <<>>
    ELSE IF WasPublished(Head(xs))
    THEN <<PublicationBefore(Head(xs))>> \o PublicationsBeforeOf(Tail(xs))
    ELSE PublicationsBeforeOf(Tail(xs))

ArrayOfTracks(xs) == isArray(xs) /\ \A k \in 1..Len(xs) : xs[k] \in Inputs

\* C14: unpublishTracks of an array of tracks does not throw, returns the
\* publications its elements had, in the order of the array, and leaves no
\* element registered or published.
UnpublishTracksResult ==
    (last.op = "unpublishTracks" /\ ArrayOfTracks(last.arg)) =>
        /\ last.ret.kind = "array"
        /\ array = PublicationsBeforeOf(last.arg)
        /\ \A k \in 1..Len(last.arg) :
              /\ trackId(last.arg[k]) \notin tracks
              /\ getTrackPublication(trackPublications, trackId(last.arg[k])) = NoPub

\* unpublishTracks of an array of tracks has returned two publications.
UnpublishTracksWitness ==
    /\ last.op = "unpublishTracks"
    /\ ArrayOfTracks(last.arg)
    /\ Len(array) = 2

\* C14, when no element makes unpublishTrack throw.
UnpublishTracksResultUnlessThrown ==
    last.ret.kind # "throw" => UnpublishTracksResult

\* ----------------------------------------------------------------- C15
Created(t) == {k \in 1..Len(created) : created[k].track = t}

Stops(t) == Occurrences(calls, <<"stop", t>>)

\* C16: removeTrack(track, stop) of a registered track removes it from the
\* registry and returns it, and stops it once unless stop is false;
\* of a track that is not registered it returns null, removes nothing and
\* stops nothing.
RemoveTrackResult ==
    (last.op = "removeTrack" /\ last.arg[1] \in Inputs) =>
        LET t == trackId(last.arg[1])
            stop == last.arg[2]
        IN  IF t \in pre.tracks
            THEN /\ last.ret = Ret("value", t, 0, NoPub, NoError)
                 /\ t \notin tracks
                 /\ Stops(t) = IF stop = "false" THEN 0 ELSE 1
            ELSE /\ last.ret = Ret("value", NoTrack, 0, NoPub, NoError)
                 /\ tracks = pre.tracks
                 /\ Stops(t) = 0

\* C16 for the tracks that are published or not registered when removeTrack
\* is called.
RemoveTrackResultOfPublished ==
    (/\ last.op = "removeTrack"
     /\ last.arg[1] \in Inputs
     /\ trackId(last.arg[1]) \in pre.tracks => PublishedBefore(trackId(last.arg[1])))
        => RemoveTrackResult

\* ----------------------------------------------------------------- C17
SignalingCalls == {"addTrack", "removeTrack", "enable", "disable"}
Teardown ==
    /\ last.op = "stateChanged"
    /\ last.arg = "disconnected"
    /\ pre.handlers = "attached"

\* C17: the turn in which signaling goes to 'disconnected' removes the
\* 'stateChanged' listener and the four handlers of the controller before
\* it stops the first track, and neither that turn nor any turn after it
\* calls addTrack, removeTrack, enable or disable of signaling.
DisconnectOrdering ==
    /\ Teardown =>
          /\ handlers = "detached"
          /\ Len(calls) >= 5
          /\ {calls[k][2] : k \in 1..5} =
                {"stateChanged", "trackAdded", "trackDisabled", "trackEnabled",
                 "trackRemoved"}
          /\ \A k \in 1..Len(calls) :
                calls[k][1] = (IF k <= 5 THEN "removeListener" ELSE "stop")
          /\ \A t \in Tracks : Stops(t) = IF t \in tracksToStop THEN 1 ELSE 0
    /\ (Teardown \/ pre.handlers = "detached") =>
          \A k \in 1..Len(calls) : calls[k][1] \notin SignalingCalls

\* Witness of C17: the teardown has removed the handlers and stopped a track.
DisconnectOrderingWitness ==
    /\ Teardown
    /\ \E k \in 1..Len(calls) : calls[k][1] = "stop"

\* A registered track is removed after the teardown and signaling is not
\* called.
RemovalAfterTeardown ==
    /\ pre.handlers = "detached"
    /\ last.op \in UnpublishOps
    /\ tracks # pre.tracks

\* ----------------------------------------------------------------- C18
Deferred == {"trackPublished", "trackPublicationFailed"}
\* The settlements of the turn whose branch of updated() sets a timer.
Scheduling ==
    SelectSeq(settled,
              LAMBDA x : \/ x.branch = "error"
                         \/ x.branch = "sid" /\ state = "connected")
NewTimers == SubSeq(timers, Len(pre.timers) + 1, Len(timers))

\* C18: 'trackPublished' and 'trackPublicationFailed' are emitted by an
\* expired timer only, never in the turn that dispatches 'updated'; that turn
\* queues one timer per listener that published or failed, in the order of
\* the listeners, behind the timers already set; the timers expire oldest
\* first, one notification each.
DeferredNotifications ==
    IF last.op = "timer"
    THEN /\ pre.timers # <<>>
         /\ emitted = <<Head(pre.timers)>>
         /\ timers = Tail(pre.timers)
    ELSE /\ \A e \in Range(emitted) : e.type \notin Deferred
         /\ Len(timers) >= Len(pre.timers)
         /\ SubSeq(timers, 1, Len(pre.timers)) = pre.timers
         /\ Len(NewTimers) = Len(Scheduling)
         /\ \A k \in 1..Len(NewTimers) :
               /\ NewTimers[k].track = Scheduling[k].track
               /\ NewTimers[k].type =
                     (IF Scheduling[k].branch = "sid"
                      THEN "trackPublished" ELSE "trackPublicationFailed")

\* Witness of C18: a turn has queued a timer behind one already set.
DeferredNotificationsWitness ==
    /\ last.op \in {"setSid", "publishFailed"}
    /\ pre.timers # <<>>
    /\ Len(timers) = Len(pre.timers) + 1
    /\ timers[1].type # timers[2].type

\* Two timers of different notifications were set and the older has expired.
OldestTimerFirst ==
    /\ last.op = "timer"
    /\ Len(pre.timers) = 2
    /\ pre.timers[1].type # pre.timers[2].type

\* ----------------------------------------------------------------- C19
\* C19: for a track that has a publication when a turn starts, no Promise is
\* waiting and the turn, be it a publish, an unpublish or an update of its
\* TrackSignaling record, rejects no Promise of that track and sets no timer
\* for 'trackPublicationFailed' of that track.
NoFailureOncePublished ==
    \A t \in Tracks : PublishedBefore(t) =>
        /\ Waiting(t) = {}
        /\ \A k \in 1..Len(settled) :
              settled[k].track = t => settled[k].outcome # "rejected"
        /\ \A k \in 1..Len(NewTimers) :
              ~(NewTimers[k].type = "trackPublicationFailed" /\ NewTimers[k].track = t)
        /\ (last.op = "publishTrack" /\ trackId(last.arg) = t) =>
              last.ret.kind = "resolved"

\* Witness of C19: a published track is unpublished; publishFailed is called
\* on its TrackSignaling record and nothing is rejected or scheduled.
NoFailureOncePublishedWitness ==
    \E t \in Tracks :
        /\ PublishedBefore(t)
        /\ Unpublishes(t)
        /\ <<"publishFailed", t>> \in Range(calls)
        /\ settled = <<>>
        /\ timers = pre.timers

\* ----------------------------------------------------------------- C20
Pending(t) == t \in pre.tracks /\ Waiting(t) # {} /\ ~PublishedBefore(t)

\* C20: publishTrack of a track whose publish is pending leaves the registry
\* alone, calls nothing of signaling, emits nothing and attaches one more
\* listener behind those waiting; when the sid arrives for two or more
\* waiting Promises, one publication is constructed, it is the only entry of
\* the track, and every waiting Promise is resolved once, with it.
DoubleInvocation ==
    \A t \in Tracks :
        /\ (last.op = "publishTrack" /\ trackId(last.arg) = t /\ Pending(t)) =>
              /\ tracks = pre.tracks
              /\ calls = <<>>
              /\ emitted = <<>>
              /\ settled = <<>>
              /\ last.ret.kind = "pending"
              /\ Len(sigTracks[t].listeners) = Len(pre.sigTracks[t].listeners) + 1
              /\ SubSeq(sigTracks[t].listeners, 1, Len(pre.sigTracks[t].listeners)) =
                    pre.sigTracks[t].listeners
              /\ sigTracks[t].listeners[Len(sigTracks[t].listeners)].id = last.ret.id
              /\ last.ret.id \notin {p.id : p \in Waiting(t)}
        /\ (last.op = "setSid" /\ last.arg = t /\ Cardinality(Waiting(t)) >= 2) =>
              /\ Len(created) = 1
              /\ created[1].track = t
              /\ {q \in Publications : q.track = t} = {created[1]}
              /\ Len(settled) = Cardinality(Waiting(t))
              /\ \A p \in Waiting(t) :
                    \E k \in 1..Len(settled) :
                        /\ settled[k].track = t
                        /\ settled[k].id = p.id
                        /\ settled[k].outcome = "resolved"
                        /\ settled[k].pub = created[1]

\* Witness of C20: the sid has arrived for two Promises of one track and
\* both are resolved with one publication.
DoubleInvocationWitness ==
    /\ last.op = "setSid"
    /\ Len(settled) = 2
    /\ settled[1].id # settled[2].id
    /\ settled[1].track = settled[2].track
    /\ settled[1].pub = settled[2].pub
    /\ settled[1].outcome = "resolved"

\* publishTrack was called for a track whose publish is pending.
SecondPublishWhilePending ==
    \E t \in Tracks :
        /\ last.op = "publishTrack"
        /\ trackId(last.arg) = t
        /\ Pending(t)

\* ----------------------------------------------------------------- C21
\* C21: _tracksToStop is, at construction, the set of the tracks given to the
\* constructor that are no data tracks if shouldStopLocalTracks is set, and
\* empty otherwise; no turn changes it; the 'stateChanged' listener stops
\* only its tracks, so no data track and no track registered later.
AutoStopSetIsFixed ==
    /\ last.op = "constructor" =>
          tracksToStop =
              IF last.arg[2] THEN {t \in last.arg[1] : kind(t) # "data"} ELSE {}
    /\ tracksToStop = pre.tracksToStop
    /\ \A t \in tracksToStop : kind(t) # "data"
    /\ \A t \in Tracks :
          /\ stopCalls[t] > 0 => t \in tracksToStop
          /\ Teardown => Stops(t) = IF t \in tracksToStop THEN 1 ELSE 0
          /\ (last.op \in {"publishTrack", "unpublishTrack", "publishTracks",
                           "unpublishTracks", "setSid", "publishFailed"}) => Stops(t) = 0

\* Witness of C21: the teardown stops the audio track given at construction
\* and stops neither the registered data track nor anything else.
AutoStopSetIsFixedWitness ==
    /\ Teardown
    /\ tracksToStop = {"a1"}
    /\ "d1" \in tracks
    /\ Stops("a1") = 1
    /\ Stops("d1") = 0

\* The teardown finds an audio track that was published after construction
\* and does not stop it.
LaterTrackIsNotStopped ==
    /\ Teardown
    /\ "a1" \in tracks
    /\ tracksToStop = {}
    /\ calls = SubSeq(calls, 1, 5)

\* ----------------------------------------------------------------- C22
AllSids == UNION {Sids(t) : t \in Tracks}
Kinds == {"audio", "video", "data"}
KindNow(k) ==
    CASE k = "audio" -> audioTrackPublications
      [] k = "video" -> videoTrackPublications
      [] OTHER -> dataTrackPublications

\* C22: a sid is a key of trackPublications if and only if it is a key of
\* exactly one of the three maps by kind; that map is the one of the kind of
\* the publication's track and holds the same publication under the sid.
RegistriesInSync ==
    /\ \A k \in Kinds : MapKeys(KindNow(k)) \subseteq AllSids
    /\ MapKeys(trackPublications) \subseteq AllSids
    /\ \A sid \in AllSids :
          LET holders == {k \in Kinds : MapHas(KindNow(k), sid)}
          IN  /\ MapHas(trackPublications, sid) <=> Cardinality(holders) = 1
              /\ Cardinality(holders) <= 1
              /\ MapHas(trackPublications, sid) =>
                    LET p == MapGet(trackPublications, sid)
                    IN  /\ holders = {kind(p.track)}
                        /\ MapGet(KindNow(kind(p.track)), sid) = p
    /\ \A k \in Kinds :
          \A i, j \in 1..Len(KindNow(k)) : KindNow(k)[i].key = KindNow(k)[j].key => i = j

\* Witness of C22: of an audio and a data publication one is unpublished and
\* the other stays in both registries.
RegistriesInSyncWitness ==
    /\ last.op \in UnpublishOps
    /\ Len(pre.trackPublications) = 2
    /\ Len(trackPublications) = 1
    /\ Len(audioTrackPublications) + Len(dataTrackPublications) = 1

\* ----------------------------------------------------------------- C23
\* The turn has notified 'updated' on the record of the registered track t,
\* which has neither error nor sid, while Promises wait on it.
UpdatedWithoutNews(t) ==
    /\ last.op \in {"enable", "disable"}
    /\ last.arg = t
    /\ <<last.op, t>> \in Range(calls)
    /\ t \in pre.tracks
    /\ pre.sigTracks[t].sid = NoSid
    /\ pre.sigTracks[t].error = NoError
    /\ Waiting(t) # {}

\* C23: an 'updated' notification that finds the track registered and its
\* record without error and without sid changes nothing: the registry and
\* the publication maps are as before, no Promise is settled, the listeners
\* stay attached in their order, and no timer is set.
KeepWaiting ==
    \A t \in Tracks : UpdatedWithoutNews(t) =>
        /\ tracks = pre.tracks
        /\ trackPublications = pre.trackPublications
        /\ \A k \in Kinds : KindNow(k) = KindMap(pre, k)
        /\ settled = <<>>
        /\ created = <<>>
        /\ sigTracks = pre.sigTracks
        /\ timers = pre.timers
        /\ \A e \in Range(emitted) : e.type \in {"trackEnabled", "trackDisabled"}

\* Witness of C23: two Promises wait on a record that notifies 'updated'
\* without error and without sid.
KeepWaitingWitness ==
    \E t \in Tracks :
        /\ UpdatedWithoutNews(t)
        /\ Cardinality(Waiting(t)) = 2

\* ----------------------------------------------------------------- C24
EnableCalls(t) == SelectSeq(calls, LAMBDA c : c \in {<<"enable", t>>, <<"disable", t>>})

\* C24: while the LocalParticipant is not disconnected, the application's
\* enabling or disabling of a registered track emits one 'trackEnabled' or
\* 'trackDisabled' and makes one call on the TrackSignaling record of the
\* track, enable() for the former and disable() for the latter, so that the
\* record's flag is the track's; no other turn, and no turn once the
\* LocalParticipant is disconnected, calls enable() or disable().
EnabledIsMirrored ==
    \A t \in Tracks :
        IF last.op \in {"enable", "disable"} /\ last.arg = t
              /\ pre.state # "disconnected"
        THEN /\ last.ret.kind # "throw"
             /\ emitted = <<Event(IF last.op = "enable" THEN "trackEnabled"
                                  ELSE "trackDisabled", t, NoPub, NoError)>>
             /\ EnableCalls(t) = <<<<last.op, t>>>>
        ELSE EnableCalls(t) = <<>>

\* Witness of C24: a registered track is disabled while the LocalParticipant
\* is connected and disable() is called on its record.
EnabledIsMirroredWitness ==
    /\ last.op = "disable"
    /\ pre.state = "connected"
    /\ EnableCalls(last.arg) = <<<<"disable", last.arg>>>>

\* A registered track is enabled after the disconnect: nothing is emitted
\* and nothing is called.
EnableAfterDisconnect ==
    /\ last.op = "enable"
    /\ pre.state = "disconnected"
    /\ calls = <<>>
    /\ emitted = <<>>

\* ----------------------------------------------------------------- C25
\* The timers that the turn has set for 'trackPublished' of publication p.
Announcements(p) ==
    {k \in 1..Len(NewTimers) :
        NewTimers[k].type = "trackPublished" /\ NewTimers[k].pub = p}

\* 'trackPublished' is scheduled only in the turn that constructs the
\* publication it carries, and emitted only by these timers.
AnnouncedWhenCreated ==
    /\ \A k \in 1..Len(NewTimers) :
          NewTimers[k].type = "trackPublished" => NewTimers[k].pub \in Range(created)
    /\ \A e \in Range(emitted) :
          e.type = "trackPublished" => last.op = "timer" /\ e = Head(pre.timers)

\* C25: at most one timer is set for 'trackPublished' of a publication, so
\* the notification is emitted at most once for it.
TrackPublishedOnce ==
    /\ AnnouncedWhenCreated
    /\ \A p \in Range(created) : Cardinality(Announcements(p)) <= 1

\* What holds instead: one timer per Promise that waited for the sid.
TrackPublishedPerPromise ==
    /\ AnnouncedWhenCreated
    /\ \A p \in Range(created) :
          Cardinality(Announcements(p)) =
              IF state = "connected" THEN Cardinality(Waiting(p.track)) ELSE 0

\* ----------------------------------------------------------------- C26
\* C26: the publication that an emitted 'trackPublished' carries is in
\* trackPublications and its track is in the registry.
NoStaleAnnouncement ==
    \A e \in Range(emitted) :
        e.type = "trackPublished" =>
            /\ e.pub \in Publications
            /\ e.pub.track \in tracks

\* What holds instead: the publication was in trackPublications, and its
\* track in the registry, when the timer was set.
AnnouncedWhilePublished ==
    \A k \in 1..Len(NewTimers) :
        NewTimers[k].type = "trackPublished" =>
            /\ NewTimers[k].pub \in Publications
            /\ NewTimers[k].pub.track \in tracks

\* ---------------------------------------------------------------------
\* C27

\* The 'trackPublicationFailed' timers for track t set in this turn.
FailureTimers(t) ==
    {k \in 1..Len(NewTimers) :
        /\ NewTimers[k].type = "trackPublicationFailed"
        /\ NewTimers[k].track = t}

\* C27: when the TrackSignaling record of a track acquires an error, at
\* most one 'trackPublicationFailed' notification for that track is queued
\* for delivery, however many publishTrack calls were pending for it.
TrackPublicationFailedOnce ==
    last.op = "publishFailed" => Cardinality(FailureTimers(last.arg)) <= 1

\* What the source does: one 'trackPublicationFailed' timer per pending
\* Promise of the failed track, that is one per 'updated' listener.
TrackPublicationFailedPerPromise ==
    last.op = "publishFailed" =>
        Cardinality(FailureTimers(last.arg)) = Len(pre.sigTracks[last.arg].listeners)

\* ---------------------------------------------------------------------
\* C28

\* C28: every track of the track registry has a TrackSignaling record in
\* signaling, in every state, after disconnect included; a publishTrack
\* rejected for want of a record leaves no track behind in the registry.
RegisteredTracksHaveRecords ==
    \A t \in tracks : sigTracks[t].exists

\* What the source does: the registry and signaling agree as long as the
\* listeners of the constructor are attached; a publishTrack rejected for
\* want of a record happens without them only, and its track stays in the
\* registry.
RecordsWhileAttached ==
    /\ handlers = "attached" => \A t \in tracks : sigTracks[t].exists
    /\ (last.op = "publishTrack" /\ last.ret.kind = "rejected"
            /\ last.ret.error = "unexpected") =>
           /\ handlers # "attached"
           /\ asLocalTrack(last.arg) \in tracks
           /\ ~sigTracks[asLocalTrack(last.arg)].exists

\* ---------------------------------------------------------------------
\* C29

\* C29: unpublishTrack of a track of a valid type never ends in an error,
\* before or after disconnect, whatever the track is (not registered,
\* pending, published, registered by a publishTrack after disconnect): it
\* returns a LocalTrackPublication or null.
UnpublishNeverThrows ==
    (last.op = "unpublishTrack" /\ last.arg \in Inputs) =>
        /\ last.ret.kind = "value"
        /\ last.ret.error = NoError

\* What the source does: unpublishTrack of a track of a valid type throws
\* exactly when the track is registered and signaling has no TrackSignaling
\* record of it, which takes a registry that changed without the listeners
\* of the constructor; the exception leaves everything as it was.
UnpublishThrowsWithoutRecord ==
    (last.op = "unpublishTrack" /\ last.arg \in Inputs) =>
        LET t == trackId(last.arg)
        IN  IF t \in pre.tracks /\ ~pre.sigTracks[t].exists
            THEN /\ last.ret = Ret("throw", NoTrack, 0, NoPub, "TypeError")
                 /\ pre.handlers # "attached"
                 /\ Before = pre
            ELSE last.ret.kind = "value"

\* ---------------------------------------------------------------------
\* C30

\* The Promises of track t that were pending when the turn began and whose
\* rejection is swallowed: those of the constructor.
SwallowedWaiting(t) == {l \in Waiting(t) : l.swallowed}

\* C30: a participant constructed while not disconnected has its
\* listeners attached, has called signaling.addTrack once for each track it
\* was given and for no other, and waits for each with one Promise whose
\* rejection is swallowed; that Promise still yields the
\* LocalTrackPublication and 'trackPublished', or 'trackPublicationFailed'.
\* A participant constructed while disconnected has called nothing and
\* attached nothing, and no later 'stateChanged' stops a track or makes it
\* call signaling.
ConstructionSubmitsTracks ==
    /\ last.op = "constructor" =>
          /\ emitted = <<>> /\ settled = <<>> /\ timers = <<>>
          /\ trackPublications = <<>>
          /\ IF last.arg[3] # "disconnected"
             THEN /\ handlers = "attached"
                  /\ \A c \in Range(calls) : c[1] = "addTrack"
                  /\ \A t \in Tracks :
                        IF t \in last.arg[1]
                        THEN /\ Occurrences(calls, <<"addTrack", t>>) = 1
                             /\ sigTracks[t].exists
                             /\ sigTracks[t].listeners = <<Promise(1, TRUE)>>
                        ELSE /\ Occurrences(calls, <<"addTrack", t>>) = 0
                             /\ sigTracks[t] = NoRecord
             ELSE /\ handlers = "never"
                  /\ calls = <<>>
                  /\ \A t \in Tracks : sigTracks[t] = NoRecord
    /\ handlers = "never" =>
          /\ state = "disconnected"
          /\ \A t \in Tracks :
                /\ stopCalls[t] = 0
                /\ Stops(t) = 0 \/ last.op = "removeTrack"
                /\ sigTracks[t] = NoRecord
          /\ \A c \in Range(calls) : c[1] \notin SignalingCalls
    /\ \A t \in Tracks : SwallowedWaiting(t) # {} =>
          /\ (last.op = "setSid" /\ last.arg = t) =>
                /\ \E p \in Publications : p.track = t
                /\ state = "connected" =>
                      \E k \in 1..Len(NewTimers) :
                          /\ NewTimers[k].type = "trackPublished"
                          /\ NewTimers[k].pub.track = t
          /\ (last.op = "publishFailed" /\ last.arg = t) =>
                \E k \in 1..Len(NewTimers) :
                    /\ NewTimers[k].type = "trackPublicationFailed"
                    /\ NewTimers[k].track = t

\* Witness of C30: a participant constructed while connecting with both
\* tracks has submitted both.
ConstructionSubmitsTracksWitness ==
    /\ last.op = "constructor"
    /\ last.arg[1] = Tracks
    /\ last.arg[3] = "connecting"
    /\ calls = <<<<"addTrack", "a1">>, <<"addTrack", "d1">>>>
    /\ \A t \in Tracks : sigTracks[t].listeners = <<Promise(1, TRUE)>>

\* A participant constructed while disconnected with a track to stop is
\* notified of 'disconnected' and stops nothing.
ConstructedDisconnected ==
    /\ handlers = "never"
    /\ last.op = "stateChanged"
    /\ tracksToStop # {}
    /\ \A t \in Tracks : stopCalls[t] = 0

\* The Promise of the constructor yields 'trackPublished'.
ConstructionPublishes ==
    /\ last.op = "setSid"
    /\ SwallowedWaiting(last.arg) # {}
    /\ \E k \in 1..Len(NewTimers) : NewTimers[k].type = "trackPublished"

====
